---- MODULE Spec2Model ----
(***************************************************************************)
(* State-reconciliation core of SpotifyModal (src/src/utils.ts):           *)
(* the resolver functions, the EventEmitter that SpotifyWatcher extends    *)
(* and the SpotifyWatcher itself, together with the host objects it talks  *)
(* to (module registry, flux dispatcher, realtime connections).            *)
(***************************************************************************)
EXTENDS Integers, Sequences, FiniteSets, TLC

(***************************************************************************)
(* Bounds                                                                  *)
(***************************************************************************)
\* largest number of connection objects the host discards
MaxGen == 2
\* largest number of awaited store lookups in flight
MaxPending == 2
\* largest number of calls made directly on the emitters
MaxCalls == 4
\* largest number of times emit("ready") re-invokes one deferred call
MaxRetries == 3
\* largest elapsed progress of the modal, in ms
MaxPassed == 3

(***************************************************************************)
(* Values                                                                  *)
(***************************************************************************)
Ids == {"A", "B"}

\* the absent account id: the constructor's "" (and an omitted argument)
NoId == ""

\* a realtime connection object of the host: the account it belongs to and
\* the generation of the object (the host replaces connection objects)
Conn(a, g) == [acc |-> a, gen |-> g]

\* undefined in the place of a connection
NoConn == [acc |-> NoId, gen |-> 0]

\* the five host dispatch events of registerFlux
UpdateEvents == {"SPOTIFY_PROFILE_UPDATE", "SPOTIFY_SET_DEVICES",
                 "SPOTIFY_ACCOUNT_ACCESS_TOKEN", "SPOTIFY_SET_ACTIVE_DEVICES",
                 "SPOTIFY_PLAYER_STATE"}

\* the events the host is made to dispatch: the one the readiness fallback
\* shares with the update handler, and one of the four it does not
DispatchedEvents == {"SPOTIFY_PROFILE_UPDATE", "SPOTIFY_PLAYER_STATE"}

\* a player state payload (event.state of PLAYER_STATE_CHANGED)
PlayerState(playing, progress, duration, repeat, shuffle) ==
  [is_playing |-> playing, progress_ms |-> progress, duration_ms |-> duration,
   repeat_state |-> repeat, shuffle_state |-> shuffle]

NoState == PlayerState(FALSE, 0, 0, "", FALSE)

\* a stored or carried JS value: undefined, a player state or a device list
Undefined == [t |-> "undefined", st |-> NoState, dv |-> <<>>]
StateVal(s) == [t |-> "state", st |-> s, dv |-> <<>>]
DevVal(d) == [t |-> "devices", st |-> NoState, dv |-> d]

\* one event of a realtime payload: { type, event: { state } | { devices } };
\* val is Undefined when `event` is missing
Event(type, val) == [type |-> type, val |-> val]

\* one payload: { events: [...] }, or an object without `events`
Payload(hasEvents, evs) == [hasEvents |-> hasEvents, events |-> evs]

\* message.data: text that JSON.parse decodes (ok) to { type, payloads }, with
\* type "" and hasPayloads FALSE for the members it lacks, or that it rejects
Message(ok, type, hasPayloads, ps) ==
  [ok |-> ok, type |-> type, hasPayloads |-> hasPayloads, payloads |-> ps]

NoMsg == Message(FALSE, "", FALSE, <<>>)

\* modalUpdateRate handed to the SpotifyModal constructor, in ms
ModalUpdateRate == 1

VARIABLES
  \* ---- host ----
  accounts,      \* store.__getLocalVars().accounts: account ids in insertion order
  gen,           \* generation of each account's connection object
  active,        \* account of store.getActiveSocketAndDevice(), NoId when absent
  storeOk,       \* whether waitForModule yields the store module
  hostBus,       \* "common": common.fluxDispatcher; "lazy": found by waitForModule; "absent"
  subs,          \* dispatcher subscriptions: event name -> handlers in order
  \* ---- SpotifyWatcher ----
  accountId,     \* #accountId
  dispatcher,    \* this.dispatcher is defined
  state,         \* #state
  devices,       \* #devices
  sockets,       \* #sockets: [def, map]
  pongHandlers,  \* keys of #socketsPongHandlers
  socket,        \* #socket: [accountId, ws]
  registered,    \* #registered
  pongListenerRegistered, \* #pongListenerRegistered
  events,        \* EventEmitter._events
  \* ---- connections ----
  msgL,          \* connections carrying handlers.SPOTIFY_WEBSOCKET_MESSAGE
  pongL,         \* <<connection, accountId>>: connections carrying a pong handler
  \* ---- scheduling ----
  pend,          \* continuations awaiting the store module, in call order
  pendBus,       \* continuations awaiting the dispatcher module, in call order
  \* ---- observation ----
  op,            \* the operation of the last step
  fired,         \* the events emitted by the last step, in order
  updIds,        \* the accountIds the update handler has been called with
  \* ---- the emitters called directly ----
  hist,          \* the calls made on the emitters, in order
  cevents,       \* _events of the EventEmitter of common.ts
  ran,           \* what the last call ran: the handlers invoked, whether it raised
  \* ---- the resolvers called directly ----
  res,           \* what the last resolver call returned
  sf,            \* the SpotifySocketFunctions object of common.ts
  \* ---- SpotifyModal ----
  modal          \* the fields of the SpotifyModal its handlers read and write

hostVars == <<accounts, gen, active, storeOk, hostBus>>
watcherVars == <<accountId, dispatcher, state, devices, sockets, pongHandlers,
                 socket, registered, pongListenerRegistered, events>>
vars == <<accounts, gen, active, storeOk, hostBus, subs,
          accountId, dispatcher, state, devices, sockets, pongHandlers,
          socket, registered, pongListenerRegistered, events,
          msgL, pongL, pend, pendBus, op, fired, updIds, hist, cevents, ran,
          res, sf, modal>>

\* the variables only direct calls on the emitters, on the resolvers and on
\* the modal's handlers change
labVars == <<hist, cevents, ran, res, sf, modal>>

(***************************************************************************)
(* Sequence helpers                                                        *)
(***************************************************************************)
Range(s) == {s[i] : i \in 1..Len(s)}

Without(s, x) == SelectSeq(s, LAMBDA y : y # x)

\* Set.add: insertion order, no duplicates
SetAdd(s, x) == IF x \in Range(s) THEN s ELSE Append(s, x)

(***************************************************************************)
(* Host                                                                    *)
(***************************************************************************)
\* accounts[a].socket
ConnOf(a) == Conn(a, gen[a])

\* the number of connection objects the host has discarded so far
RECURSIVE SumGen(_)
SumGen(S) == IF S = {} THEN 0
             ELSE LET a == CHOOSE x \in S : TRUE IN gen[a] + SumGen(S \ {a})

Discarded == SumGen(Ids)

(***************************************************************************)
(* Resolver                                                                *)
(***************************************************************************)
\* getSpotifySocket without Method II, the registry lookup by accountId
getSpotifySocketNoRegistry(a) ==
  IF ~storeOk THEN NoConn
  ELSE IF active # NoId /\ active = a THEN ConnOf(active)
  ELSE IF active # NoId THEN ConnOf(active)
  ELSE IF Len(accounts) > 0 THEN ConnOf(accounts[1])
  ELSE NoConn

\* getSpotifySocket(accountId), evaluated when the awaited store lookup settles
getSpotifySocket(a) ==
  IF ~storeOk THEN NoConn
  ELSE IF active # NoId /\ active = a THEN ConnOf(active)
  ELSE IF a \in Range(accounts) THEN ConnOf(a)
  ELSE IF active # NoId THEN ConnOf(active)
  ELSE IF Len(accounts) > 0 THEN ConnOf(accounts[1])
  ELSE NoConn

\* getAllSpotifySockets without the check for an empty registry
getAllSpotifySocketsEmptyMap ==
  IF ~storeOk THEN [def |-> FALSE, map |-> <<>>]
  ELSE [def |-> TRUE, map |-> [i \in 1..Len(accounts) |-> ConnOf(accounts[i])]]

\* getAllSpotifySockets(): [def |-> FALSE] is the absent result
getAllSpotifySockets ==
  IF ~storeOk THEN [def |-> FALSE, map |-> <<>>]
  ELSE IF Len(accounts) = 0 THEN [def |-> FALSE, map |-> <<>>]
  ELSE [def |-> TRUE, map |-> [i \in 1..Len(accounts) |-> ConnOf(accounts[i])]]

(***************************************************************************)
(* EventEmitter (the one SpotifyWatcher extends)                           *)
(***************************************************************************)
\* a bucket of _events: absent, a single function, or a Set of functions
NoBucket == [k |-> "none", hs |-> <<>>]

\* a handler registered on the watcher: a closure load() creates (tag "pong")
\* or a consumer's function (tag "consumer"); n tells the functions of a tag apart
Handler(tag, n) == [tag |-> tag, n |-> n]

\* a closure created now and registered with on(name, ...): a function other
\* than the one the bucket holds (on keeps at most one earlier function)
Fresh(ev, name, tag) ==
  IF ev[name].k = "fn" /\ ev[name].hs[1] = Handler(tag, 1)
  THEN Handler(tag, 2)
  ELSE Handler(tag, 1)

\* on(name, callback)
On(ev, name, h) ==
  IF ev[name].k = "fn"
  THEN [ev EXCEPT ![name] = [k |-> "set", hs |-> SetAdd(<<ev[name].hs[1]>>, h)]]
  ELSE [ev EXCEPT ![name] = [k |-> "fn", hs |-> <<h>>]]

\* removeAllListeners(name) with a string name
RemoveAllListeners(ev, name) ==
  IF ev[name].k # "none"
  THEN [ev EXCEPT ![name] = NoBucket]
  ELSE [n \in DOMAIN ev |-> NoBucket]

\* the functions emit(name) invokes, in order
Listeners(ev, name) == ev[name].hs

\* an emitted event: emit(name, a, b) / emit("websocket", conn) / emit("message", a, val)
Ev(name, a, b, c, v) == [name |-> name, a |-> a, b |-> b, conn |-> c, val |-> v]

(***************************************************************************)
(* SpotifyWatcher                                                          *)
(***************************************************************************)
\* a continuation awaiting the store module: the rest of #afterSpotifyUpdate
\* for account acc ("resolve"), or the rest of addPongEvent ("enum"), called
\* by load() (load) or by itself
Resolve(a) == [k |-> "resolve", acc |-> a, load |-> FALSE]
Enum(byLoad) == [k |-> "enum", acc |-> NoId, load |-> byLoad]

\* the watcher fields a synchronous call chain reads and writes, with the
\* events it has emitted (fired) and the update-handler runs it has made (calls)
Self == [accountId |-> accountId, socket |-> socket, msgL |-> msgL,
         pend |-> pend, events |-> events, updIds |-> updIds,
         fired |-> <<>>, calls |-> 0]

\* this.emit(name, ...) with no handler of the watcher's own on name
Emit(w, e) == [w EXCEPT !.fired = Append(@, e)]

\* `this.socket.<field> = v`: the getter `socket` returns a fresh object
\* literal, so the assignment lands on the copy and #socket keeps its value
SocketSetDirect(sock, field, v) == [sock EXCEPT ![field] = v]

SocketSet(sock, field, v) == sock

\* #afterSpotifyUpdate up to its await
AfterSpotifyUpdate(w) ==
  LET attached == w.socket.ws # NoConn
      w1 == IF attached /\ w.socket.accountId # w.accountId
            THEN [w EXCEPT !.msgL = @ \ {w.socket.ws}]
            ELSE w
  IN IF attached /\ w.socket.accountId = w.accountId
     THEN w
     ELSE [w1 EXCEPT !.socket = SocketSet(@, "accountId", w.accountId),
                     !.pend = Append(@, Resolve(w.accountId))]

\* handlers.SPOTIFY_UPDATE without the `if (!this.#accountId)` guard
SpotifyUpdateAdopting(w, a) ==
  LET w0 == [w EXCEPT !.calls = @ + 1, !.updIds = @ \cup {a}, !.accountId = a]
  IN AfterSpotifyUpdate(Emit(w0, Ev("update", a, w0.accountId, NoConn, Undefined)))

\* handlers.SPOTIFY_UPDATE without the mismatch check
SpotifyUpdateNoCheck(w, a) ==
  LET w0 == [w EXCEPT !.calls = @ + 1, !.updIds = @ \cup {a}]
      w1 == IF w0.accountId = NoId THEN [w0 EXCEPT !.accountId = a] ELSE w0
  IN AfterSpotifyUpdate(Emit(w1, Ev("update", a, w1.accountId, NoConn, Undefined)))

\* handlers.SPOTIFY_UPDATE emitting `update` twice
SpotifyUpdateTwice(w, a) ==
  LET w0 == [w EXCEPT !.calls = @ + 1, !.updIds = @ \cup {a}]
      w1 == IF w0.accountId = NoId THEN [w0 EXCEPT !.accountId = a] ELSE w0
      e == Ev("update", a, w1.accountId, NoConn, Undefined)
  IN IF w1.accountId # a THEN w1
     ELSE AfterSpotifyUpdate(Emit(Emit(w1, e), e))

\* handlers.SPOTIFY_UPDATE({ accountId: a })
SpotifyUpdate(w, a) ==
  LET w0 == [w EXCEPT !.calls = @ + 1, !.updIds = @ \cup {a}]
      w1 == IF w0.accountId = NoId THEN [w0 EXCEPT !.accountId = a] ELSE w0
  IN IF w1.accountId # a
     THEN w1
     ELSE AfterSpotifyUpdate(Emit(w1, Ev("update", a, w1.accountId, NoConn, Undefined)))

\* emit("pong", a): every function of the `pong` bucket runs; the closures of
\* load() call the update handler, a consumer's function does nothing here
RECURSIVE RunPong(_, _, _)
RunPong(w, hs, a) ==
  IF hs = <<>> THEN w
  ELSE RunPong(IF Head(hs).tag = "pong" THEN SpotifyUpdate(w, a) ELSE w, Tail(hs), a)

\* emit("pong", a) with no closure of load() registered
EmitPongOnly(w, a) == Emit(w, Ev("pong", a, NoId, NoConn, Undefined))

\* the pong handler of addPongEvent on {"type": "pong"}: this.emit("pong", accountId)
EmitPong(w, a) ==
  RunPong(Emit(w, Ev("pong", a, NoId, NoConn, Undefined)), Listeners(w.events, "pong"), a)

(***************************************************************************)
(* Dispatcher (host flux bus)                                              *)
(***************************************************************************)
BusEvents == UpdateEvents \cup {"GAMES_DATABASE_UPDATE"}

\* a dispatcher.subscribe(e, h) that registers nothing
SubscribeNothing(sb, e, h) == sb

\* dispatcher.subscribe(e, h): the bus keeps a Set of handlers per event
Subscribe(sb, e, h) == [sb EXCEPT ![e] = SetAdd(@, h)]

\* dispatcher.unsubscribe(e, h)
Unsubscribe(sb, e, h) == [sb EXCEPT ![e] = Without(@, h)]

\* registerFlux without its subscribe call for SPOTIFY_PLAYER_STATE
SubscribeFour(sb) == [e \in BusEvents |->
  IF e \in UpdateEvents \ {"SPOTIFY_PLAYER_STATE"}
  THEN SetAdd(sb[e], "SPOTIFY_UPDATE") ELSE sb[e]]

\* the five subscribe calls of registerFlux
SubscribeFive(sb) == [e \in BusEvents |->
  IF e \in UpdateEvents THEN SetAdd(sb[e], "SPOTIFY_UPDATE") ELSE sb[e]]

\* removeFlux without its unsubscribe call for SPOTIFY_PLAYER_STATE
UnsubscribeFour(sb) == [e \in BusEvents |->
  IF e \in UpdateEvents \ {"SPOTIFY_PLAYER_STATE"}
  THEN Without(sb[e], "SPOTIFY_UPDATE") ELSE sb[e]]

\* the five unsubscribe calls of removeFlux
UnsubscribeFive(sb) == [e \in BusEvents |->
  IF e \in UpdateEvents THEN Without(sb[e], "SPOTIFY_UPDATE") ELSE sb[e]]

(***************************************************************************)
(* Observation                                                             *)
(***************************************************************************)
\* the operation of a step: its name, the accountId and connection it is
\* about, the number of update-handler runs it made, whether it raised
Op(name, a, c, n, threw) ==
  [name |-> name, id |-> a, conn |-> c, calls |-> n, threw |-> threw, msg |-> NoMsg]

\* the part of a step a synchronous call chain produced
Commit(w) ==
  /\ accountId' = w.accountId
  /\ socket' = w.socket
  /\ msgL' = w.msgL
  /\ pend' = w.pend
  /\ events' = w.events
  /\ updIds' = w.updIds
  /\ fired' = w.fired

EventNames == {"pong", "message", "update"}

(***************************************************************************)
(* Initial state: the watcher after its constructor, the host in any state *)
(***************************************************************************)
Registries == {<<>>} \cup {<<a>> : a \in Ids}
              \cup {r \in Ids \X Ids : r[1] # r[2]}

\* a bucket of the Map of common.ts: no entry, or a Set of functions
NoCBucket == [has |-> FALSE, hs |-> <<>>]

\* no handler invoked, nothing raised, by either emitter
NoRan == [u |-> <<>>, uThrew |-> FALSE, c |-> <<>>, cThrew |-> FALSE]

\* what a resolver call returned: nothing (k "absent"), an account object
\* (k "account"; an account and its connection are told apart by k only),
\* a connection, a mapping accountId -> account or connection (map, in key
\* order), or a SpotifyAPI built around an account (k "api")
Res(k, c, m) == [k |-> k, conn |-> c, map |-> m]

Absent == Res("absent", NoConn, <<>>)

\* SpotifySocketFunctions after its field initialisers: listRef tells whether
\* _accountList is the host's registry object or the initial {}; readyL is
\* the Set of functions registered for `ready`; emitting tells that getStore
\* is inside emit("ready")
NoSf == [account |-> NoConn, listRef |-> FALSE, ready |-> FALSE, store |-> FALSE,
         websocket |-> NoConn, websocketList |-> <<>>, readyL |-> <<>>,
         emitting |-> FALSE]

\* SpotifyModal after its constructor: #status (active, playing, progress,
\* repeat, shuffle, state, and the member `device` the handler adds), the
\* modal's own property `active` ("unset" until assigned) and #modalUpdateRate
NoModal == [statusActive |-> FALSE, playing |-> FALSE, passed |-> 0, duration |-> 0,
            repeat |-> "off", shuffle |-> FALSE, state |-> Undefined,
            statusDevice |-> Undefined, active |-> "unset", rate |-> ModalUpdateRate]

InitWatcher ==
  /\ res = Absent
  /\ sf = NoSf
  /\ modal = NoModal
  /\ hist = <<>>
  /\ cevents = [n \in EventNames |-> NoCBucket]
  /\ ran = NoRan
  /\ accountId = NoId
  /\ dispatcher = FALSE
  /\ state = Undefined
  /\ devices = Undefined
  /\ sockets = [def |-> FALSE, map |-> <<>>]
  /\ pongHandlers = {}
  /\ socket = [accountId |-> NoId, ws |-> NoConn]
  /\ registered = FALSE
  /\ pongListenerRegistered = FALSE
  /\ events = [n \in EventNames |-> NoBucket]
  /\ msgL = {}
  /\ pongL = {}
  /\ pend = <<>>
  /\ pendBus = <<>>
  /\ op = Op("new", NoId, NoConn, 0, FALSE)
  /\ fired = <<>>
  /\ updIds = {}

Init ==
  /\ accounts \in Registries
  /\ gen = [a \in Ids |-> 0]
  /\ active \in {NoId} \cup Range(accounts)
  /\ storeOk \in BOOLEAN
  /\ hostBus \in {"common", "lazy", "absent"}
  /\ subs = [e \in BusEvents |-> <<>>]
  /\ InitWatcher

(***************************************************************************)
(* Host steps                                                              *)
(***************************************************************************)
\* the user links account a
HostLink(a) ==
  /\ UNCHANGED labVars
  /\ a \notin Range(accounts)
  /\ accounts' = Append(accounts, a)
  /\ op' = Op("host", NoId, NoConn, 0, FALSE)
  /\ fired' = <<>>
  /\ UNCHANGED <<gen, active, storeOk, hostBus, subs, watcherVars, msgL, pongL,
                 pend, pendBus, updIds>>

\* the user unlinks account a (or its connection drops): the connection object
\* is gone for good, a later link of a brings a new object
HostUnlink(a) ==
  /\ UNCHANGED labVars
  /\ a \in Range(accounts)
  /\ Discarded < MaxGen
  /\ accounts' = Without(accounts, a)
  /\ gen' = [gen EXCEPT ![a] = @ + 1]
  /\ active' = IF active = a THEN NoId ELSE active
  /\ op' = Op("host", NoId, NoConn, 0, FALSE)
  /\ fired' = <<>>
  /\ UNCHANGED <<storeOk, hostBus, subs, watcherVars, msgL, pongL,
                 pend, pendBus, updIds>>

\* the host's active socket changes
HostSetActive(a) ==
  /\ UNCHANGED labVars
  /\ a \in {NoId} \cup Range(accounts)
  /\ a # active
  /\ active' = a
  /\ op' = Op("host", NoId, NoConn, 0, FALSE)
  /\ fired' = <<>>
  /\ UNCHANGED <<accounts, gen, storeOk, hostBus, subs, watcherVars, msgL, pongL,
                 pend, pendBus, updIds>>

\* the host finishes its startup: the store module and the bus become available
HostReady ==
  /\ UNCHANGED labVars
  /\ ~storeOk \/ hostBus = "absent"
  /\ storeOk' = TRUE
  /\ hostBus' = IF hostBus = "absent" THEN "common" ELSE hostBus
  /\ op' = Op("host", NoId, NoConn, 0, FALSE)
  /\ fired' = <<>>
  /\ UNCHANGED <<accounts, gen, active, subs, watcherVars, msgL, pongL,
                 pend, pendBus, updIds>>

(***************************************************************************)
(* Watcher steps                                                           *)
(***************************************************************************)

\* registerFlux after this.dispatcher is set, without the `this.registered` check
RegisterTailAlways(disp) ==
  IF ~disp
  THEN <<registered, subs, <<>> >>
  ELSE <<TRUE, SubscribeFive(subs), <<Ev("registered", NoId, NoId, NoConn, Undefined)>> >>

\* registerFlux after this.dispatcher is set: <<registered, subs, fired>>
RegisterTail(disp) ==
  IF ~disp \/ registered
  THEN <<registered, subs, <<>> >>
  ELSE <<TRUE, SubscribeFive(subs), <<Ev("registered", NoId, NoId, NoConn, Undefined)>> >>

\* load(): registerFlux up to its await (none when common.fluxDispatcher is
\* set), then the call of addPongEvent up to its await
Load ==
  /\ UNCHANGED labVars
  /\ Len(pend) + Len(pendBus) < MaxPending
  /\ IF hostBus = "common"
     THEN LET r == RegisterTail(TRUE)
          IN /\ dispatcher' = TRUE
             /\ registered' = r[1]
             /\ subs' = r[2]
             /\ fired' = r[3]
             /\ pend' = Append(pend, Enum(TRUE))
             /\ pendBus' = pendBus
     ELSE /\ pendBus' = Append(pendBus, "load")
          /\ fired' = <<>>
          /\ UNCHANGED <<dispatcher, registered, subs, pend>>
  /\ op' = Op("load", NoId, NoConn, 0, FALSE)
  /\ UNCHANGED <<hostVars, accountId, state, devices, sockets, pongHandlers, socket,
                 pongListenerRegistered, events, msgL, pongL, updIds>>

\* the awaited waitForModule of registerFlux settles; load() goes on to addPongEvent
BusDone ==
  /\ UNCHANGED labVars
  /\ pendBus # <<>>
  /\ LET r == RegisterTail(hostBus # "absent")
     IN /\ dispatcher' = (hostBus # "absent")
        /\ registered' = r[1]
        /\ subs' = r[2]
        /\ fired' = r[3]
  /\ pend' = Append(pend, Enum(Head(pendBus) = "load"))
  /\ pendBus' = Tail(pendBus)
  /\ op' = Op("registerFlux", NoId, NoConn, 0, FALSE)
  /\ UNCHANGED <<hostVars, accountId, state, devices, sockets, pongHandlers, socket,
                 pongListenerRegistered, events, msgL, pongL, updIds>>

\* the forEach of addPongEvent over the enumerated sockets: <<handler keys, listeners>>
RECURSIVE AttachPong(_, _, _)
AttachPong(map, keys, ls) ==
  IF map = <<>> THEN <<keys, ls>>
  ELSE LET c == Head(map)
       IN IF c.acc \in keys
          THEN AttachPong(Tail(map), keys, ls)
          ELSE AttachPong(Tail(map), keys \cup {c.acc}, ls \cup {<<c, c.acc>>})

\* the forEach of removePongEvent over #sockets: <<handler keys, listeners>>
RECURSIVE DetachPong(_, _, _)
DetachPong(map, keys, ls) ==
  IF map = <<>> THEN <<keys, ls>>
  ELSE LET c == Head(map)
       IN IF c.acc \in keys
          THEN DetachPong(Tail(map), keys \ {c.acc}, ls \ {<<c, c.acc>>})
          ELSE DetachPong(Tail(map), keys, ls)

\* member x of event.event: event.event.state / event.event.devices, undefined
\* when event.event is an object of the other kind
Member(val, x) == IF val.t = x THEN val ELSE Undefined

\* handlers.SPOTIFY_WEBSOCKET_MESSAGE treating every type but
\* PLAYER_STATE_CHANGED as DEVICE_STATE_CHANGED
OnSocketMessageElse(st, dv, m) ==
  IF ~m.ok THEN [state |-> st, devices |-> dv, fired |-> <<>>, threw |-> TRUE]
  ELSE IF m.type = "" \/ ~m.hasPayloads \/ m.type = "pong"
  THEN [state |-> st, devices |-> dv, fired |-> <<>>, threw |-> FALSE]
  ELSE IF m.payloads = <<>> \/ ~m.payloads[1].hasEvents \/ m.payloads[1].events = <<>>
  THEN [state |-> st, devices |-> dv, fired |-> <<>>, threw |-> TRUE]
  ELSE LET e == m.payloads[1].events[1]
           player == e.type = "PLAYER_STATE_CHANGED"
       IN IF e.val = Undefined /\ player
          THEN [state |-> st, devices |-> dv, fired |-> <<>>, threw |-> TRUE]
          ELSE LET st1 == IF player THEN Member(e.val, "state") ELSE st
                   dv1 == IF ~player THEN Member(e.val, "devices") ELSE dv
               IN [state |-> st1, devices |-> dv1, threw |-> FALSE,
                   fired |-> <<Ev("message", e.type, NoId, NoConn,
                                  IF player THEN st1 ELSE dv1)>>]

\* handlers.SPOTIFY_WEBSOCKET_MESSAGE emitting the stored devices for every type
OnSocketMessageDevices(st, dv, m) ==
  IF ~m.ok THEN [state |-> st, devices |-> dv, fired |-> <<>>, threw |-> TRUE]
  ELSE IF m.type = "" \/ ~m.hasPayloads \/ m.type = "pong"
  THEN [state |-> st, devices |-> dv, fired |-> <<>>, threw |-> FALSE]
  ELSE IF m.payloads = <<>> \/ ~m.payloads[1].hasEvents \/ m.payloads[1].events = <<>>
  THEN [state |-> st, devices |-> dv, fired |-> <<>>, threw |-> TRUE]
  ELSE LET e == m.payloads[1].events[1]
           known == e.type \in {"PLAYER_STATE_CHANGED", "DEVICE_STATE_CHANGED"}
       IN IF e.val = Undefined /\ known
          THEN [state |-> st, devices |-> dv, fired |-> <<>>, threw |-> TRUE]
          ELSE LET st1 == IF e.type = "PLAYER_STATE_CHANGED"
                          THEN Member(e.val, "state") ELSE st
                   dv1 == IF e.type = "DEVICE_STATE_CHANGED"
                          THEN Member(e.val, "devices") ELSE dv
               IN [state |-> st1, devices |-> dv1, threw |-> FALSE,
                   fired |-> <<Ev("message", e.type, NoId, NoConn, dv1)>>]

\* handlers.SPOTIFY_WEBSOCKET_MESSAGE without the `data?.payloads` and
\* `data.type !== "pong"` parts of its guard
OnSocketMessageAnyType(st, dv, m) ==
  IF ~m.ok THEN [state |-> st, devices |-> dv, fired |-> <<>>, threw |-> TRUE]
  ELSE IF m.type = ""
  THEN [state |-> st, devices |-> dv, fired |-> <<>>, threw |-> FALSE]
  ELSE IF m.payloads = <<>> \/ ~m.payloads[1].hasEvents \/ m.payloads[1].events = <<>>
  THEN [state |-> st, devices |-> dv, fired |-> <<>>, threw |-> TRUE]
  ELSE LET e == m.payloads[1].events[1]
           known == e.type \in {"PLAYER_STATE_CHANGED", "DEVICE_STATE_CHANGED"}
       IN IF e.val = Undefined /\ known
          THEN [state |-> st, devices |-> dv, fired |-> <<>>, threw |-> TRUE]
          ELSE LET st1 == IF e.type = "PLAYER_STATE_CHANGED"
                          THEN Member(e.val, "state") ELSE st
                   dv1 == IF e.type = "DEVICE_STATE_CHANGED"
                          THEN Member(e.val, "devices") ELSE dv
               IN [state |-> st1, devices |-> dv1, threw |-> FALSE,
                   fired |-> <<Ev("message", e.type, NoId, NoConn,
                                  IF e.type = "PLAYER_STATE_CHANGED" THEN st1 ELSE dv1)>>]

\* handlers.SPOTIFY_WEBSOCKET_MESSAGE(message) on stored #state st and #devices
\* dv: the new #state and #devices, the events emitted, whether it raised
\* (JSON.parse on undecodable text; a member read on undefined)
OnSocketMessage(st, dv, m) ==
  IF ~m.ok THEN [state |-> st, devices |-> dv, fired |-> <<>>, threw |-> TRUE]
  ELSE IF m.type = "" \/ ~m.hasPayloads \/ m.type = "pong"
  THEN [state |-> st, devices |-> dv, fired |-> <<>>, threw |-> FALSE]
  ELSE IF m.payloads = <<>> \/ ~m.payloads[1].hasEvents \/ m.payloads[1].events = <<>>
  THEN [state |-> st, devices |-> dv, fired |-> <<>>, threw |-> TRUE]
  ELSE LET e == m.payloads[1].events[1]
           known == e.type \in {"PLAYER_STATE_CHANGED", "DEVICE_STATE_CHANGED"}
       IN IF e.val = Undefined /\ known
          THEN [state |-> st, devices |-> dv, fired |-> <<>>, threw |-> TRUE]
          ELSE LET st1 == IF e.type = "PLAYER_STATE_CHANGED"
                          THEN Member(e.val, "state") ELSE st
                   dv1 == IF e.type = "DEVICE_STATE_CHANGED"
                          THEN Member(e.val, "devices") ELSE dv
               IN [state |-> st1, devices |-> dv1, threw |-> FALSE,
                   fired |-> <<Ev("message", e.type, NoId, NoConn,
                                  IF e.type = "PLAYER_STATE_CHANGED" THEN st1 ELSE dv1)>>]

\* the message listener runs on realtime message m
SocketMessage(m) ==
  /\ UNCHANGED labVars
  /\ LET r == OnSocketMessage(state, devices, m)
     IN /\ state' = r.state
        /\ devices' = r.devices
        /\ fired' = r.fired
        /\ op' = [Op("message", NoId, NoConn, 0, r.threw) EXCEPT !.msg = m]
  /\ UNCHANGED <<hostVars, subs, accountId, dispatcher, sockets, pongHandlers, socket,
                 registered, pongListenerRegistered, events, msgL, pongL, pend,
                 pendBus, updIds>>

\* the awaited getAllSpotifySockets of addPongEvent settles; when load() called
\* it and it did not raise, load() goes on to this.on("pong", ...)
EnumDone ==
  /\ UNCHANGED labVars
  /\ pend # <<>>
  /\ Head(pend).k = "enum"
  /\ pend' = Tail(pend)
  /\ LET got == getAllSpotifySockets
         byLoad == Head(pend).load
         raises == ~got.def /\ ~pongListenerRegistered /\ ~dispatcher
         at == AttachPong(got.map, pongHandlers, pongL)
     IN /\ sockets' = got
        /\ pongHandlers' = IF got.def THEN at[1] ELSE pongHandlers
        /\ pongL' = IF got.def THEN at[2] ELSE pongL
        /\ subs' = IF ~got.def /\ ~pongListenerRegistered /\ dispatcher
                   THEN Subscribe(subs, "SPOTIFY_PROFILE_UPDATE", "REGISTER_PONG_EVENT")
                   ELSE subs
        /\ pongListenerRegistered' = IF ~got.def /\ ~raises THEN TRUE
                                     ELSE pongListenerRegistered
        /\ events' = IF byLoad /\ ~raises
                     THEN On(events, "pong", Fresh(events, "pong", "pong"))
                     ELSE events
        /\ op' = Op("addPongEvent", NoId, NoConn, 0, raises)
  /\ fired' = <<>>
  /\ UNCHANGED <<hostVars, accountId, dispatcher, state, devices, socket, registered,
                 msgL, pendBus, updIds>>

\* the awaited getSpotifySocket(acc) of #afterSpotifyUpdate settles
ResolveDone ==
  /\ UNCHANGED labVars
  /\ pend # <<>>
  /\ Head(pend).k = "resolve"
  /\ pend' = Tail(pend)
  /\ LET r == getSpotifySocket(Head(pend).acc)
         s == SocketSet(socket, "ws", r)
     IN /\ socket' = s
        /\ msgL' = IF s.ws # NoConn THEN msgL \cup {s.ws} ELSE msgL
        /\ fired' = IF s.ws # NoConn
                    THEN <<Ev("websocket", NoId, NoId, s.ws, Undefined)>>
                    ELSE <<Ev("error", "websocket", NoId, NoConn, Undefined)>>
        /\ op' = Op("resolved", Head(pend).acc, r, 0, FALSE)
  /\ UNCHANGED <<hostVars, subs, accountId, dispatcher, state, devices, sockets,
                 pongHandlers, registered, pongListenerRegistered, events, pongL,
                 pendBus, updIds>>

\* the handlers the bus runs for one dispatched event, in subscription order
RECURSIVE RunBus(_, _, _)
RunBus(w, hs, a) ==
  IF hs = <<>> THEN w
  ELSE RunBus(IF Head(hs) = "SPOTIFY_UPDATE" THEN SpotifyUpdate(w, a)
              ELSE [w EXCEPT !.pend = Append(@, Enum(FALSE))],
              Tail(hs), a)

\* the host dispatches event e for a linked account
Dispatch(e, a) ==
  /\ UNCHANGED labVars
  /\ a \in Range(accounts)
  /\ subs[e] # <<>>
  /\ Len(pend) + Len(subs[e]) <= MaxPending
  /\ LET w == RunBus(Self, subs[e], a)
     IN /\ Commit(w)
        /\ op' = Op("dispatch", a, NoConn, w.calls, FALSE)
  /\ subs' = IF "REGISTER_PONG_EVENT" \in Range(subs[e])
             THEN Unsubscribe(subs, "GAMES_DATABASE_UPDATE", "REGISTER_PONG_EVENT")
             ELSE subs
  /\ UNCHANGED <<hostVars, dispatcher, state, devices, sockets, pongHandlers,
                 registered, pongListenerRegistered, pongL, pendBus>>

\* a live connection delivers {"type": "pong"}: its pong handler emits `pong`
PongMessage(c) ==
  /\ UNCHANGED labVars
  /\ <<c, c.acc>> \in pongL
  /\ c.acc \in Range(accounts) /\ c = ConnOf(c.acc)
  /\ Len(pend) + Len(Listeners(events, "pong")) <= MaxPending
  /\ LET w == EmitPong(Self, c.acc)
     IN /\ Commit(w)
        /\ op' = Op("pong", c.acc, c, w.calls, FALSE)
  /\ UNCHANGED <<hostVars, subs, dispatcher, state, devices, sockets, pongHandlers,
                 registered, pongListenerRegistered, pongL, pendBus>>

\* watcher.accountId = id
SetAccountId(id) ==
  /\ UNCHANGED labVars
  /\ Len(pend) < MaxPending
  /\ LET raises == accountId # id /\ ~sockets.def
         w == IF accountId # id /\ sockets.def /\ id \in {c.acc : c \in Range(sockets.map)}
              THEN SpotifyUpdate([Self EXCEPT !.accountId = id], id)
              ELSE Self
     IN /\ Commit(w)
        /\ op' = Op("setAccountId", id, NoConn, w.calls, raises)
  /\ UNCHANGED <<hostVars, subs, dispatcher, state, devices, sockets, pongHandlers,
                 registered, pongListenerRegistered, pongL, pendBus>>

\* unload() that also forgets the bound account and the stored values
UnloadResetting ==
  /\ UNCHANGED labVars
  /\ LET flux == dispatcher /\ registered
         dt == DetachPong(sockets.map, pongHandlers, pongL)
     IN /\ subs' = IF flux THEN UnsubscribeFive(subs) ELSE subs
        /\ registered' = IF flux THEN FALSE ELSE registered
        /\ fired' = IF flux THEN <<Ev("unregistered", NoId, NoId, NoConn, Undefined)>>
                    ELSE <<>>
        /\ pongHandlers' = IF sockets.def THEN dt[1] ELSE pongHandlers
        /\ pongL' = IF sockets.def THEN dt[2] ELSE pongL
  /\ events' = RemoveAllListeners(events, "pong")
  /\ msgL' = IF socket.ws # NoConn THEN msgL \ {socket.ws} ELSE msgL
  /\ op' = Op("unload", NoId, NoConn, 0, FALSE)
  /\ accountId' = NoId
  /\ state' = Undefined
  /\ devices' = Undefined
  /\ UNCHANGED <<hostVars, dispatcher, sockets, socket,
                 pongListenerRegistered, pend, pendBus, updIds>>

\* unload(): removeFlux, removePongEvent, removeAllListeners("pong"), removeSocketEvent
Unload ==
  /\ UNCHANGED labVars
  /\ LET flux == dispatcher /\ registered
         dt == DetachPong(sockets.map, pongHandlers, pongL)
     IN /\ subs' = IF flux THEN UnsubscribeFive(subs) ELSE subs
        /\ registered' = IF flux THEN FALSE ELSE registered
        /\ fired' = IF flux THEN <<Ev("unregistered", NoId, NoId, NoConn, Undefined)>>
                    ELSE <<>>
        /\ pongHandlers' = IF sockets.def THEN dt[1] ELSE pongHandlers
        /\ pongL' = IF sockets.def THEN dt[2] ELSE pongL
  /\ events' = RemoveAllListeners(events, "pong")
  /\ msgL' = IF socket.ws # NoConn THEN msgL \ {socket.ws} ELSE msgL
  /\ op' = Op("unload", NoId, NoConn, 0, FALSE)
  /\ UNCHANGED <<hostVars, accountId, dispatcher, state, devices, sockets, socket,
                 pongListenerRegistered, pend, pendBus, updIds>>

\* every connection object the host can have created
Conns == {Conn(a, g) : a \in Ids, g \in 0..MaxGen}

\* every step of the host and of the watcher, with a bus of any kind and a
\* registry that gains and loses accounts
Next ==
  \/ \E a \in Ids : HostLink(a)
  \/ \E a \in Ids : HostUnlink(a)
  \/ \E a \in Ids \cup {NoId} : HostSetActive(a)
  \/ HostReady
  \/ Load
  \/ BusDone
  \/ EnumDone
  \/ ResolveDone
  \/ \E e \in DispatchedEvents, a \in Ids : Dispatch(e, a)
  \/ \E c \in Conns : PongMessage(c)
  \/ \E a \in Ids : SetAccountId(a)
  \/ Unload

Spec == Init /\ [][Next]_vars

(***************************************************************************)
(* The update path: a host whose bus is common.fluxDispatcher and whose     *)
(* registry only loses accounts                                            *)
(***************************************************************************)
InitUpd == Init /\ hostBus = "common"

NextUpd ==
  \/ \E a \in Ids : HostUnlink(a)
  \/ \E a \in Ids \cup {NoId} : HostSetActive(a)
  \/ HostReady
  \/ Load
  \/ EnumDone
  \/ ResolveDone
  \/ \E e \in DispatchedEvents, a \in Ids : Dispatch(e, a)
  \/ \E c \in Conns : PongMessage(c)
  \/ \E a \in Ids : SetAccountId(a)
  \/ Unload

SpecUpd == InitUpd /\ [][NextUpd]_vars

(***************************************************************************)
(* Properties of the update handler and the socket binding                 *)
(***************************************************************************)
\* the socket resolutions in flight
Resolves(p) == SelectSeq(p, LAMBDA x : x.k = "resolve")

\* the events of one name among those a step emitted
Fired(f, name) == SelectSeq(f, LAMBDA x : x.name = name)

\* C1: an update whose accountId differs from the bound, non-empty accountId
\* (delivered by the bus or through the pong path) leaves the bound accountId
\* as it is, emits no `update`, starts no socket resolution, attaches and
\* detaches no listener and emits no `websocket` or `error`.
C1_MismatchRejected ==
  [][(op'.calls > 0 /\ op'.name \in {"dispatch", "pong"}
        /\ accountId # NoId /\ op'.id # accountId)
     => /\ accountId' = accountId
        /\ Fired(fired', "update") = <<>>
        /\ Fired(fired', "websocket") = <<>>
        /\ Fired(fired', "error") = <<>>
        /\ Resolves(pend') = Resolves(pend)
        /\ msgL' = msgL
        /\ socket' = socket]_vars

\* a dispatched update for an account other than the bound one has just been rejected
C1_Witness ==
  /\ op.name = "dispatch" /\ op.calls > 0
  /\ accountId # NoId /\ op.id # accountId
  /\ fired = <<>>

C3_ConstantAccount ==
  [][(op'.calls > 0 /\ updIds' = {op'.id})
     => /\ accountId' = op'.id
        /\ Len(Fired(fired', "update")) = op'.calls
        /\ \A i \in 1..Len(fired') :
             fired'[i].name = "update" => fired'[i].a = op'.id]_vars

\* two updates for A, and none for another account, have been delivered
C3_Witness ==
  /\ updIds = {"A"} /\ accountId = "A"
  /\ op.name = "dispatch" /\ op.calls = 1
  /\ Len(Resolves(pend)) = 2

\* C4: when the resolution started by an accepted update returns a connection
\* for the bound account and no socket was attached, the listener is attached
\* to it, #socket records it and `websocket` is emitted; `error` is emitted
\* only when the resolver returned nothing.
C4_BindsResolved ==
  [][(op'.name = "resolved")
     => /\ (op'.conn # NoConn /\ op'.conn.acc = accountId /\ op'.id = accountId
              /\ socket.ws = NoConn)
           => /\ op'.conn \in msgL'
              /\ socket' = [accountId |-> accountId, ws |-> op'.conn]
              /\ fired' = <<Ev("websocket", NoId, NoId, op'.conn, Undefined)>>
        /\ Fired(fired', "error") # <<>> => op'.conn = NoConn]_vars

C6_RedundantUpdateNoOp ==
  [][(op.name = "resolved" /\ op.conn # NoConn /\ op.id = accountId
        /\ Resolves(pend) = <<>>
        /\ op'.name = "dispatch" /\ op'.calls > 0 /\ op'.id = accountId)
     => Resolves(pend') = <<>>]_vars

\* C7: a completion that settles after unload() is discarded. Here
\* registerFlux finds the bus at once, so `registered` is false after a load()
\* only when unload() has run since; the addPongEvent of a load() that settles
\* then adds no bus subscription, no pong listener and no `pong` handler.
C7_LateCompletionDiscarded ==
  [][(dispatcher /\ ~registered /\ pend # <<>> /\ Head(pend) = Enum(TRUE)
        /\ op'.name = "addPongEvent")
     => /\ subs' = subs
        /\ pongL' = pongL
        /\ msgL' = msgL
        /\ events' = events]_vars

\* C8: no two socket resolutions of the watcher are in flight at once.
C8_OneResolution == Len(Resolves(pend)) <= 1

(***************************************************************************)
(* The message handler on realtime messages                                *)
(***************************************************************************)
PlayerStates ==
  {PlayerState(p, g, 9999, r, h) :
     p \in BOOLEAN, g \in {0, 1234}, r \in {"off", "track"}, h \in BOOLEAN}

Device(id, isActive) == [id |-> id, name |-> id, is_active |-> isActive]

DeviceLists == {<<>>, <<Device("d1", TRUE)>>, <<Device("d1", FALSE), Device("d2", TRUE)>>}

\* well-formed events: a player state, a device list, a type the watcher does not know
Events ==
  {Event("PLAYER_STATE_CHANGED", StateVal(s)) : s \in PlayerStates}
  \cup {Event("DEVICE_STATE_CHANGED", DevVal(d)) : d \in DeviceLists}
  \cup {Event("QUEUE_STATE_CHANGED", Undefined)}

\* well-formed messages: one payload whose events start with an event of Events
WellFormed ==
  {Message(TRUE, "message", TRUE, <<Payload(TRUE, <<e>>)>>) : e \in Events}
  \cup {Message(TRUE, "message", TRUE,
                <<Payload(TRUE, <<e, Event("DEVICE_STATE_CHANGED", DevVal(<<>>))>>)>>) :
          e \in {Event("QUEUE_STATE_CHANGED", Undefined),
                 Event("PLAYER_STATE_CHANGED", StateVal(PlayerState(TRUE, 1234, 9999, "track", TRUE)))}}

\* liveness replies and malformed messages
OtherMessages ==
  {Message(TRUE, "pong", FALSE, <<>>),
   Message(TRUE, "pong", TRUE, <<Payload(TRUE, <<Event("DEVICE_STATE_CHANGED", DevVal(<<>>))>>)>>),
   Message(TRUE, "garbage", FALSE, <<>>),
   Message(TRUE, "", TRUE, <<Payload(TRUE, <<Event("DEVICE_STATE_CHANGED", DevVal(<<>>))>>)>>),
   Message(TRUE, "message", TRUE, <<>>),
   Message(TRUE, "message", TRUE, <<Payload(FALSE, <<>>)>>),
   Message(FALSE, "", FALSE, <<>>)}

Messages == WellFormed \cup OtherMessages

InitMsg == Init /\ accounts = <<>> /\ hostBus = "common" /\ storeOk

NextMsg == \E m \in Messages : SocketMessage(m)

SpecMsg == InitMsg /\ [][NextMsg]_vars

\* the first event of a well-formed message
FirstEvent(m) == m.payloads[1].events[1]

\* C9: a well-formed message whose first event is PLAYER_STATE_CHANGED makes
\* the stored state equal to its event.state, leaves the stored devices alone
\* and emits exactly one `message` carrying PLAYER_STATE_CHANGED and that state.
C9_PlayerStateRoundTrip ==
  [][(op'.name = "message" /\ op'.msg \in WellFormed
        /\ FirstEvent(op'.msg).type = "PLAYER_STATE_CHANGED")
     => /\ state' = FirstEvent(op'.msg).val
        /\ devices' = devices
        /\ fired' = <<Ev("message", "PLAYER_STATE_CHANGED", NoId, NoConn,
                         FirstEvent(op'.msg).val)>>
        /\ ~op'.threw]_vars

\* the message of the round-trip example has been handled after a device list was stored
C9_Witness ==
  /\ op.name = "message" /\ op.msg \in WellFormed
  /\ FirstEvent(op.msg) = Event("PLAYER_STATE_CHANGED",
                                StateVal(PlayerState(TRUE, 1234, 9999, "track", TRUE)))
  /\ state = StateVal(PlayerState(TRUE, 1234, 9999, "track", TRUE))
  /\ devices.t = "devices" /\ devices.dv # <<>>
  /\ Len(fired) = 1

Ignored == {m \in Messages : m.ok /\ (m.type = "" \/ ~m.hasPayloads \/ m.type = "pong")}

\* C11: a message that decodes to an object without `payloads`, without
\* `type`, or with type "pong" makes the message handler emit nothing, change
\* neither the stored state nor the stored devices, and raise no error.
C11_IgnoredSilently ==
  [][(op'.name = "message" /\ op'.msg \in Ignored)
     => /\ fired' = <<>>
        /\ state' = state
        /\ devices' = devices
        /\ ~op'.threw]_vars

\* {"type": "garbage"} has been handled with a state and a device list stored
C11_Witness ==
  /\ op.name = "message" /\ op.msg = Message(TRUE, "garbage", FALSE, <<>>)
  /\ state.t = "state" /\ devices.t = "devices"
  /\ fired = <<>> /\ ~op.threw

\* the malformed messages: text that is not decodable JSON, or a decoded
\* object with `type` and `payloads` whose payloads are empty or whose first
\* payload has no `events`
Malformed ==
  {m \in Messages :
     \/ ~m.ok
     \/ /\ m.type # "" /\ m.type # "pong" /\ m.hasPayloads
        /\ (m.payloads = <<>> \/ ~m.payloads[1].hasEvents)}

C13_PongBeforeUpdate ==
  [][(op'.name = "pong" /\ accountId = NoId /\ events["pong"].k = "fn")
     => /\ fired' = <<Ev("pong", op'.id, NoId, NoConn, Undefined),
                      Ev("update", op'.id, op'.id, NoConn, Undefined)>>
        /\ op'.calls = 1
        /\ accountId' = op'.id]_vars

\* a pong on A's connection was the first update the watcher saw
C13_Witness ==
  /\ op.name = "pong" /\ op.id = "A" /\ op.calls = 1
  /\ accountId = "A" /\ updIds = {"A"}
  /\ pend = <<Resolve("A")>>
  /\ Len(fired) = 2

\* the number of times handler h is subscribed to bus event e
Subscribed(e, h) == Len(SelectSeq(subs[e], LAMBDA x : x = h))

\* C14: however many addPongEvent() calls have run or are pending while no
\* sockets are enumerable, the readiness fallback handler is subscribed to
\* the bus exactly once from the first of them that settles, and not before.
C14_FallbackOnce ==
  /\ Subscribed("SPOTIFY_PROFILE_UPDATE", "REGISTER_PONG_EVENT")
       = IF pongListenerRegistered THEN 1 ELSE 0
  /\ \A e \in BusEvents \ {"SPOTIFY_PROFILE_UPDATE"} :
       Subscribed(e, "REGISTER_PONG_EVENT") = 0

\* two overlapping load() calls have both settled their addPongEvent on a
\* host that never had an account
C14_Witness ==
  /\ accounts = <<>> /\ Discarded = 0 /\ storeOk
  /\ op.name = "addPongEvent" /\ ~op.threw
  /\ events["pong"].k = "set"
  /\ pongListenerRegistered

\* C15: after removePongEvent() (run by unload()), whatever addPongEvent()
\* runs and registry changes came before, no connection carries a pong
\* listener of the watcher and its pong-handler table is empty.
C15_RemovalComplete ==
  [][(op'.name = "unload") => (pongL' = {} /\ pongHandlers' = {})]_vars

\* C17: when the host readiness event runs the fallback handler, enumeration
\* is retried and the handler is no longer subscribed to that event.
C17_FallbackOneShot ==
  [][(op'.name = "dispatch"
        /\ "REGISTER_PONG_EVENT" \in Range(subs["SPOTIFY_PROFILE_UPDATE"]))
     => /\ Enum(FALSE) \in Range(pend')
        /\ "REGISTER_PONG_EVENT" \notin Range(subs'["SPOTIFY_PROFILE_UPDATE"])]_vars

\* C18: an unload() called after a load() has completed leaves no handler on
\* the bus, no handler on the watcher's `pong` event and no connection with
\* the watcher's message listener.
C18_UnloadReleasesAll ==
  [][(op'.name = "unload" /\ dispatcher /\ pend = <<>> /\ pendBus = <<>>)
     => /\ \A e \in BusEvents : subs'[e] = <<>>
        /\ events'["pong"] = NoBucket
        /\ msgL' = {}]_vars

(***************************************************************************)
(* The heartbeat on a host of any kind whose registry gains and loses      *)
(* accounts, a returning account coming with a new connection object       *)
(***************************************************************************)
InitLife == Init /\ active = NoId

NextLife ==
  \/ \E a \in Ids : HostLink(a)
  \/ \E a \in Ids : HostUnlink(a)
  \/ HostReady
  \/ Load
  \/ BusDone
  \/ EnumDone
  \/ Unload

SpecLife == InitLife /\ [][NextLife]_vars

\* C16 on a host that replaces connection objects: when addPongEvent() settles
\* with sockets enumerated, each enumerated connection carries exactly one
\* pong listener of the watcher.
C16_OneListenerEachReplaced ==
  [][(op'.name = "addPongEvent" /\ sockets'.def)
     => \A i \in 1..Len(sockets'.map) :
          Cardinality({l \in pongL' : l[1] = sockets'.map[i]}) = 1]_vars

(***************************************************************************)
(* load and unload with consumers registering handlers on the watcher, on  *)
(* a host of any kind whose registry does not change                       *)
(***************************************************************************)
\* the watcher events consumers register handlers on
ConsumerEvents == {"message", "update"}

\* a consumer calls watcher.on(name, handler) with a function of its own
ConsumerOn(name) ==
  /\ UNCHANGED labVars
  /\ events' = On(events, name, Fresh(events, name, "consumer"))
  /\ op' = Op("on", NoId, NoConn, 0, FALSE)
  /\ fired' = <<>>
  /\ UNCHANGED <<hostVars, subs, accountId, dispatcher, state, devices, sockets,
                 pongHandlers, socket, registered, pongListenerRegistered,
                 msgL, pongL, pend, pendBus, updIds>>

NextUnl ==
  \/ HostReady
  \/ Load
  \/ BusDone
  \/ EnumDone
  \/ Unload
  \/ \E n \in ConsumerEvents : ConsumerOn(n)

SpecUnl == InitLife /\ [][NextUnl]_vars

\* C19: unload() raises no error, and an unload() that follows an unload()
\* changes no bus subscription, no connection listener and no handler of the
\* watcher's emitter.
C19_UnloadIdempotent ==
  [][(op'.name = "unload")
     => /\ ~op'.threw
        /\ (op.name = "unload")
           => /\ subs' = subs
              /\ pongL' = pongL
              /\ msgL' = msgL
              /\ events' = events]_vars

\* C20: unload() leaves the handlers consumers registered on events other
\* than `pong` registered.
C20_UnloadKeepsConsumers ==
  [][(op'.name = "unload")
     => \A n \in EventNames \ {"pong"} : events'[n] = events[n]]_vars

(***************************************************************************)
(* Properties of load, registerFlux and removeFlux                         *)
(***************************************************************************)
\* C22: while load() has run, however many times, since the last unload(),
\* the watcher has one handler on its `pong` event, and each `pong` runs the
\* update handler exactly once and, when its account is the bound one or none
\* is bound, emits exactly one `update`.
C22_DoubledLoadSafe ==
  [][(op'.name = "pong" /\ events["pong"] # NoBucket
        /\ accountId \in {NoId, op'.id})
     => /\ Len(Listeners(events, "pong")) = 1
        /\ op'.calls = 1
        /\ Len(Fired(fired', "update")) = 1]_vars

\* the part of a step that is the end of registerFlux with the bus located:
\* load() on a host with common.fluxDispatcher, or the settling of
\* waitForModule on a host where it finds the bus
RegistersFlux ==
  \/ op'.name = "load" /\ hostBus = "common"
  \/ op'.name = "registerFlux" /\ hostBus # "absent"

\* C23: with the bus located, registerFlux on an unregistered watcher adds
\* the update handler to exactly the five update events, sets registered and
\* emits `registered` once; on a registered watcher (also when two bus
\* lookups overlapped) it adds no subscription and emits nothing.
C23_RegisterFlux ==
  [][RegistersFlux
     => /\ registered'
        /\ ~registered
           => /\ \A e \in UpdateEvents :
                   /\ Range(subs'[e]) = Range(subs[e]) \cup {"SPOTIFY_UPDATE"}
                   /\ Subscribed(e, "SPOTIFY_UPDATE") = 0
                   /\ Len(subs'[e]) = Len(subs[e]) + 1
              /\ subs'["GAMES_DATABASE_UPDATE"] = subs["GAMES_DATABASE_UPDATE"]
              /\ fired' = <<Ev("registered", NoId, NoId, NoConn, Undefined)>>
        /\ registered => (subs' = subs /\ fired' = <<>>)]_vars

\* the second of two overlapping bus lookups has settled on a registered watcher
C23_Witness ==
  /\ op.name = "registerFlux" /\ hostBus = "lazy"
  /\ dispatcher /\ registered /\ fired = <<>>
  /\ Len(pend) = 2

\* C24: removeFlux (run by unload()) on a registered watcher removes the
\* update handler from the five update events and nothing else, clears
\* registered and emits `unregistered` once; on a watcher that is not
\* registered or has no bus it changes no subscription, emits nothing and
\* does not raise.
C24_RemoveFlux ==
  [][(op'.name = "unload")
     => /\ ~op'.threw
        /\ (dispatcher /\ registered)
           => /\ \A e \in UpdateEvents :
                   subs'[e] = SelectSeq(subs[e], LAMBDA h : h # "SPOTIFY_UPDATE")
              /\ subs'["GAMES_DATABASE_UPDATE"] = subs["GAMES_DATABASE_UPDATE"]
              /\ ~registered'
              /\ fired' = <<Ev("unregistered", NoId, NoId, NoConn, Undefined)>>
        /\ ~(dispatcher /\ registered)
           => (subs' = subs /\ fired' = <<>> /\ registered' = registered)]_vars

\* unload() has unregistered a watcher whose fallback handler was on the bus
C24_Witness ==
  /\ op.name = "unload" /\ ~registered
  /\ fired = <<Ev("unregistered", NoId, NoId, NoConn, Undefined)>>
  /\ subs["SPOTIFY_PROFILE_UPDATE"] = <<"REGISTER_PONG_EVENT">>
  /\ \A e \in UpdateEvents \ {"SPOTIFY_PROFILE_UPDATE"} : subs[e] = <<>>

\* C25: when the bus cannot be located, registerFlux leaves registered false
\* and load() goes on through addPongEvent without raising, whatever the
\* enumeration returns.
C25_BusAbsenceNotFatal ==
  [][/\ (op'.name = "registerFlux" /\ hostBus = "absent")
        => (~op'.threw /\ registered' = registered /\ subs' = subs)
     /\ (op'.name = "addPongEvent" /\ ~dispatcher) => ~op'.threw]_vars

\* C26: every `update` the watcher emits carries the incoming accountId and
\* the accountId that was bound before the update was handled.
C26_UpdateCarriesPrevious ==
  [][(op'.name = "dispatch" /\ op'.calls = 1)
     => \A i \in 1..Len(fired') :
          fired'[i].name = "update"
            => (fired'[i].a = op'.id /\ fired'[i].b = accountId)]_vars

(***************************************************************************)
(* unload() and load() as functions of the subscription state              *)
(***************************************************************************)
\* the subscriptions and listeners of the watcher, with the fields that
\* decide what load() and unload() do to them
Subscriptions ==
  [subs |-> subs, pongL |-> pongL, pongHandlers |-> pongHandlers,
   sockets |-> sockets, events |-> events, msgL |-> msgL,
   dispatcher |-> dispatcher, registered |-> registered,
   pongListenerRegistered |-> pongListenerRegistered]

\* unload() on s: removeFlux, removePongEvent, removeAllListeners("pong"),
\* removeSocketEvent
UnloadOf(s) ==
  LET flux == s.dispatcher /\ s.registered
      dt == DetachPong(s.sockets.map, s.pongHandlers, s.pongL)
  IN [s EXCEPT !.subs = IF flux THEN UnsubscribeFive(@) ELSE @,
               !.registered = IF flux THEN FALSE ELSE @,
               !.pongHandlers = IF s.sockets.def THEN dt[1] ELSE @,
               !.pongL = IF s.sockets.def THEN dt[2] ELSE @,
               !.events = RemoveAllListeners(@, "pong"),
               !.msgL = IF socket.ws # NoConn THEN @ \ {socket.ws} ELSE @]

\* registerFlux on s, on a host where the bus is located
RegisterFluxOf(s) ==
  IF s.registered THEN [s EXCEPT !.dispatcher = TRUE]
  ELSE [s EXCEPT !.dispatcher = TRUE, !.registered = TRUE,
                 !.subs = SubscribeFive(@)]

\* addPongEvent on s called by load(), then load()'s this.on("pong", ...),
\* with this.dispatcher defined and the host as it is now
AddPongOf(s) ==
  LET got == getAllSpotifySockets
      at == AttachPong(got.map, s.pongHandlers, s.pongL)
      fallback == ~got.def /\ ~s.pongListenerRegistered
  IN [s EXCEPT !.sockets = got,
               !.pongHandlers = IF got.def THEN at[1] ELSE @,
               !.pongL = IF got.def THEN at[2] ELSE @,
               !.subs = IF fallback
                        THEN Subscribe(@, "SPOTIFY_PROFILE_UPDATE", "REGISTER_PONG_EVENT")
                        ELSE @,
               !.pongListenerRegistered = IF got.def THEN @ ELSE TRUE,
               !.events = On(@, "pong", Fresh(s.events, "pong", "pong"))]

\* load() run to completion on s, with the bus located and the host unchanged
LoadOf(s) == AddPongOf(RegisterFluxOf(s))

\* a load() has just completed on a host whose bus is located, and no other
\* call of the watcher is pending
LoadCompleted ==
  /\ op.name = "addPongEvent" /\ ~op.threw
  /\ pend = <<>> /\ pendBus = <<>>
  /\ hostBus # "absent" /\ dispatcher /\ registered
  /\ events["pong"] # NoBucket

\* C21: from a state a completed load() has reached, unload() followed by
\* load(), with the host unchanged, leaves the same handlers on each bus
\* event, the same pong listeners on the connections and one handler on the
\* watcher's `pong` event.
C21_RoundTrip ==
  LoadCompleted
  => LET t == LoadOf(UnloadOf(Subscriptions))
     IN /\ \A e \in BusEvents : Range(t.subs[e]) = Range(subs[e])
        /\ t.pongL = pongL
        /\ Len(Listeners(t.events, "pong")) = 1

(***************************************************************************)
(* The two EventEmitter classes called directly: the one of utils.ts, whose *)
(* _events is `events`, and the one of common.ts, whose _events is         *)
(* `cevents`; both receive the same calls                                  *)
(***************************************************************************)
\* the event names the calls use
LabNames == {"message", "update"}

\* the n-th function handed to the emitters: the callback itself when given
\* to on(), the wrapper once() builds around it when given to once(); it
\* raises when called or it does not
Fn(n, once, throws) ==
  [tag |-> "consumer", n |-> n, once |-> once, throws |-> throws, does |-> "nothing"]

\* the wrapper once() builds around a callback that itself calls
\* removeAllListeners(name) (does "remove") or on(name, g) with a new
\* function g (does "add")
FnDoing(n, does) ==
  [tag |-> "consumer", n |-> n, once |-> TRUE, throws |-> FALSE, does |-> does]

\* a call made on the emitters; name is NoId for removeAllListeners()
Call(k, name, fn) == [k |-> k, name |-> name, fn |-> fn]

NoFn == Fn(0, FALSE, FALSE)

\* #fixSets(): a Set has no `length`, so `!value?.length` holds for every Set
\* and every bucket that is a Set is deleted
FixSets(ev) == [n \in DOMAIN ev |-> IF ev[n].k = "set" THEN NoBucket ELSE ev[n]]

\* once(name, callback) of utils.ts, h being the wrapper replacedFunction
Once(ev, name, h) ==
  IF ev[name].k = "fn"
  THEN [ev EXCEPT ![name] = [k |-> "set", hs |-> SetAdd(<<ev[name].hs[1]>>, h)]]
  ELSE [ev EXCEPT ![name] = [k |-> "fn", hs |-> <<h>>]]

\* removeAllListeners() of utils.ts without an argument
RemoveEveryListener(ev) == [n \in DOMAIN ev |-> NoBucket]

\* emit(name) of utils.ts from its listener hs on: the functions still to be
\* invoked; a function that raises ends the emission, a wrapper of once()
\* removes itself after its callback returned
RECURSIVE RunListeners(_, _, _, _)
RunListeners(ev, name, hs, inv) ==
  IF hs = <<>> THEN [ev |-> ev, inv |-> inv, threw |-> FALSE]
  ELSE LET h == Head(hs)
       IN IF h.throws THEN [ev |-> ev, inv |-> Append(inv, h), threw |-> TRUE]
          ELSE IF h.once
          THEN RunListeners(
                 IF ev[name].k = "set"
                 THEN FixSets([ev EXCEPT ![name].hs = Without(@, h)])
                 ELSE [ev EXCEPT ![name] = NoBucket],
                 name, Tail(hs), Append(inv, h))
          ELSE RunListeners(ev, name, Tail(hs), Append(inv, h))

\* emit(name) of utils.ts
EmitRun(ev, name) == RunListeners(ev, name, ev[name].hs, <<>>)

\* on(name, callback) of common.ts
COn(ev, name, h) == [ev EXCEPT ![name] = [has |-> TRUE, hs |-> SetAdd(@.hs, h)]]

\* once(name, callback) of common.ts: on(name, _createOnceCallback(name, callback))
COnce(ev, name, h) == COn(ev, name, h)

\* removeAllListeners(name) of common.ts with a string name
CRemoveAllListeners(ev, name) ==
  IF ev[name].has THEN [ev EXCEPT ![name] = NoCBucket] ELSE ev

\* removeAllListeners() of common.ts without an argument
CRemoveEveryListener(ev) == [n \in DOMAIN ev |-> NoCBucket]

\* the function a callback that registers a further handler hands to on()
Further(h) == Fn(h.n + MaxCalls, FALSE, FALSE)

\* the for-of loop of emit(name) of common.ts from its listener hs on: hs are
\* the functions of the iterated Set not visited yet. A function that raises
\* ends the loop; the wrapper of once() runs its callback and then deletes
\* itself with this._events.get(name).delete(func), which raises a TypeError
\* when the callback has removed the entry of name from the Map; a function
\* the callback adds to the Set is visited by the same loop
RECURSIVE CRunListeners(_, _, _, _)
CRunListeners(ev, name, hs, inv) ==
  IF hs = <<>> THEN [ev |-> ev, inv |-> inv, threw |-> FALSE]
  ELSE LET h == Head(hs)
       IN IF h.throws THEN [ev |-> ev, inv |-> Append(inv, h), threw |-> TRUE]
          ELSE IF h.does = "remove"
          THEN [ev |-> CRemoveAllListeners(ev, name), inv |-> Append(inv, h),
                threw |-> TRUE]
          ELSE IF h.does = "add"
          THEN CRunListeners(
                 [COn(ev, name, Further(h)) EXCEPT ![name].hs = Without(@, h)],
                 name, SetAdd(Tail(hs), Further(h)), Append(inv, h))
          ELSE CRunListeners(
                 IF h.once THEN [ev EXCEPT ![name].hs = Without(@, h)] ELSE ev,
                 name, Tail(hs), Append(inv, h))

\* emit(name) of common.ts
CEmitRun(ev, name) == CRunListeners(ev, name, ev[name].hs, <<>>)

\* the part of a direct call that is the same for every call
Called(c) ==
  /\ Len(hist) < MaxCalls
  /\ hist' = Append(hist, c)
  /\ op' = Op(c.k, NoId, NoConn, 0, FALSE)
  /\ fired' = <<>>
  /\ UNCHANGED <<hostVars, subs, accountId, dispatcher, state, devices, sockets,
                 pongHandlers, socket, registered, pongListenerRegistered,
                 msgL, pongL, pend, pendBus, updIds, res, sf, modal>>

\* on(name, f) on both emitters, f a function not handed to them before
OnCall(name, throws) ==
  LET f == Fn(Len(hist) + 1, FALSE, throws)
  IN /\ Called(Call("on", name, f))
     /\ events' = On(events, name, f)
     /\ cevents' = COn(cevents, name, f)
     /\ ran' = NoRan

\* once(name, f) on both emitters, f a function not handed to them before
OnceCall(name, throws) ==
  LET f == Fn(Len(hist) + 1, TRUE, throws)
  IN /\ Called(Call("once", name, f))
     /\ events' = Once(events, name, f)
     /\ cevents' = COnce(cevents, name, f)
     /\ ran' = NoRan

\* emit(name) on both emitters
EmitCall(name) ==
  LET u == EmitRun(events, name)
      c == CEmitRun(cevents, name)
  IN /\ Called(Call("emit", name, NoFn))
     /\ events' = u.ev
     /\ cevents' = c.ev
     /\ ran' = [u |-> u.inv, uThrew |-> u.threw, c |-> c.inv, cThrew |-> c.threw]

\* once(name, f) on the emitter of common.ts, f a function not handed to it
\* before whose callback calls a method of the emitter
OnceDoingCall(name, does) ==
  LET f == FnDoing(Len(hist) + 1, does)
  IN /\ Called(Call("once", name, f))
     /\ cevents' = COnce(cevents, name, f)
     /\ ran' = NoRan
     /\ UNCHANGED events

\* removeAllListeners(name) on both emitters
RemoveCall(name) ==
  /\ Called(Call("removeAllListeners", name, NoFn))
  /\ events' = RemoveAllListeners(events, name)
  /\ cevents' = CRemoveAllListeners(cevents, name)
  /\ ran' = NoRan

\* removeAllListeners() on both emitters
RemoveEveryCall ==
  /\ Called(Call("removeAllListeners", NoId, NoFn))
  /\ events' = RemoveEveryListener(events)
  /\ cevents' = CRemoveEveryListener(cevents)
  /\ ran' = NoRan

InitEm == Init /\ accounts = <<>> /\ hostBus = "common" /\ storeOk

NextEm ==
  \/ \E n \in LabNames, t \in BOOLEAN : OnCall(n, t)
  \/ \E n \in LabNames, t \in BOOLEAN : OnceCall(n, t)
  \/ \E n \in LabNames : EmitCall(n)
  \/ \E n \in LabNames : RemoveCall(n)
  \/ RemoveEveryCall

SpecEm == InitEm /\ [][NextEm]_vars

\* registrations and emissions, with once-callbacks that call the emitter
NextOnce ==
  \/ \E n \in LabNames : OnCall(n, FALSE)
  \/ \E n \in LabNames : OnceCall(n, FALSE)
  \/ \E n \in LabNames, d \in {"remove", "add"} : OnceDoingCall(n, d)
  \/ \E n \in LabNames : EmitCall(n)

SpecOnce == InitEm /\ [][NextOnce]_vars

\* the call a step makes
ThisCall == hist'[Len(hist')]

\* the functions the calls of kind k in h registered for name, in call order
RECURSIVE Registered(_, _, _)
Registered(h, k, name) ==
  IF h = <<>> THEN <<>>
  ELSE LET c == Head(h)
       IN (IF c.k \in k /\ c.name = name THEN <<c.fn>> ELSE <<>>)
          \o Registered(Tail(h), k, name)

\* C27: after n >= 1 on(name, h) calls with distinct functions that do not
\* raise, and no other call, emit(name) of the utils.ts emitter invokes each
\* of the n functions once, in registration order.
C27_FanOut ==
  [][(hist' # hist /\ ThisCall.k = "emit"
        /\ \A i \in 1..Len(hist) : hist[i].k = "on" /\ ~hist[i].fn.throws)
     => /\ ran'.u = Registered(hist, {"on"}, ThisCall.name)
        /\ ~ran'.uThrew]_vars

\* the calls of h that are not removals and hand over no raising function
Plain(h) ==
  \A i \in 1..Len(h) : h[i].k \in {"on", "once", "emit"} /\ ~h[i].fn.throws

\* the functions an emit(name) made after the calls h is due to invoke: those
\* given to on(name, _), and those given to once(name, _) with no emit(name)
\* since, in registration order
Due(h, name) ==
  LET idx == SelectSeq([i \in 1..Len(h) |-> i],
                       LAMBDA i :
                         /\ h[i].name = name
                         /\ \/ h[i].k = "on"
                            \/ /\ h[i].k = "once"
                               /\ \A j \in (i+1)..Len(h) :
                                    ~(h[j].k = "emit" /\ h[j].name = name))
  IN [j \in 1..Len(idx) |-> h[idx[j]].fn]

\* C28: in the utils.ts emitter, with at most two functions registered per
\* name, none raising and none removed, every emit(name) invokes the
\* functions given to on(name, _) and the functions given to once(name, _)
\* since the previous emit(name), and leaves registered, for every name, the
\* functions given to on and the once-functions not invoked yet.
C28_OnceLeavesOn ==
  [][(hist' # hist /\ ThisCall.k = "emit" /\ Plain(hist)
        /\ \A n \in LabNames : Len(Registered(hist, {"on", "once"}, n)) <= 2)
     => /\ ran'.u = Due(hist, ThisCall.name)
        /\ \A n \in LabNames : Listeners(events', n) = Due(hist', n)]_vars

\* C29: removeAllListeners(name) with a name leaves no function registered
\* for name and changes the bucket of no other name, in both emitters, also
\* when nothing is registered for name.
C29_RemovesOnlyNamed ==
  [][(hist' # hist /\ ThisCall.k = "removeAllListeners" /\ ThisCall.name # NoId)
     => /\ Listeners(events', ThisCall.name) = <<>>
        /\ cevents'[ThisCall.name].hs = <<>>
        /\ \A n \in LabNames \ {ThisCall.name} :
              events'[n] = events[n] /\ cevents'[n] = cevents[n]]_vars

\* C30: emit(name) invokes every function registered for name, in both
\* emitters, also when one of them raises.
C30_Isolation ==
  [][(hist' # hist /\ ThisCall.k = "emit")
     => /\ ran'.u = Listeners(events, ThisCall.name)
        /\ ran'.c = cevents[ThisCall.name].hs]_vars

(***************************************************************************)
(* The resolvers called directly: the three functions of utils.ts and the  *)
(* SpotifySocketFunctions object of common.ts, over a host whose registry  *)
(* and active socket change between the calls                              *)
(***************************************************************************)
\* store.__getLocalVars().accounts as a mapping, in key order
Registry == [i \in 1..Len(accounts) |-> ConnOf(accounts[i])]

\* getSpotifyAccount(accountId), evaluated when the awaited store lookup settles
getSpotifyAccount(a) ==
  IF ~storeOk THEN Absent
  ELSE IF a = NoId
       THEN IF Len(accounts) > 0 THEN Res("account", ConnOf(accounts[1]), <<>>)
            ELSE Absent
       ELSE IF a \in Range(accounts) THEN Res("account", ConnOf(a), <<>>)
            ELSE Absent

\* the result of getSpotifySocket(accountId) as a value
SocketRes(a) ==
  LET c == getSpotifySocket(a)
  IN IF c = NoConn THEN Absent ELSE Res("conn", c, <<>>)

\* the result of getAllSpotifySockets() as a value
AllSocketsRes ==
  LET m == getAllSpotifySockets
  IN IF m.def THEN Res("map", NoConn, m.map) ELSE Absent

\* this._websocketList[id] = socket.socket
Put(list, c) ==
  IF \E i \in 1..Len(list) : list[i].acc = c.acc
  THEN [i \in 1..Len(list) |-> IF list[i].acc = c.acc THEN c ELSE list[i]]
  ELSE Append(list, c)

\* for (const [id, socket] of Object.entries(this._accountList))
\*   this._websocketList[id] = socket.socket
RECURSIVE PutAll(_, _)
PutAll(list, cs) ==
  IF cs = <<>> THEN list ELSE PutAll(Put(list, Head(cs)), Tail(cs))

\* this._websocketList[accountId], NoConn when the key is missing
Lookup(list, a) ==
  IF \E i \in 1..Len(list) : list[i].acc = a
  THEN list[CHOOSE i \in 1..Len(list) : list[i].acc = a]
  ELSE NoConn

\* a function registered for `ready`: the wrapper once() builds around the
\* closure that calls `call(id)` again; tries counts the invocations of the
\* call that emit("ready") has made so far
Deferred(call, a, tries) == [call |-> call, id |-> a, tries |-> tries]

\* `if (!this._ready) this.once("ready", () => this.call(accountId))`
Defer(s, call, a, tries) ==
  [sf |-> [s EXCEPT !.readyL = Append(@, Deferred(call, a, tries))], res |-> Absent]

\* SpotifySocketFunctions.getAccounts()
getAccounts(s, tries) ==
  IF ~s.ready THEN Defer(s, "getAccounts", NoId, tries)
  ELSE [sf |-> [s EXCEPT !.listRef = TRUE], res |-> Res("accounts", NoConn, Registry)]

\* getAccount without the early return of the active socket's account
getAccountNoActive(s, a, tries) ==
  IF ~s.ready THEN Defer(s, "getAccount", a, tries)
  ELSE LET s1 == [s EXCEPT !.listRef = TRUE]
       IN IF Len(accounts) = 0 THEN [sf |-> s1, res |-> Absent]
          ELSE IF a \in Range(accounts)
          THEN [sf |-> [s1 EXCEPT !.account = ConnOf(a)],
                res |-> Res("account", ConnOf(a), <<>>)]
          ELSE IF a = NoId
          THEN [sf |-> [s1 EXCEPT !.account = ConnOf(accounts[1])],
                res |-> Res("account", ConnOf(accounts[1]), <<>>)]
          ELSE [sf |-> [s1 EXCEPT !.account = NoConn], res |-> Absent]

\* SpotifySocketFunctions.getAccount(accountId)
getAccount(s, a, tries) ==
  IF ~s.ready THEN Defer(s, "getAccount", a, tries)
  ELSE LET s1 == [s EXCEPT !.listRef = TRUE]
       IN IF a = NoId /\ active # NoId
          THEN [sf |-> [s1 EXCEPT !.account = ConnOf(active)],
                res |-> Res("account", ConnOf(active), <<>>)]
          ELSE IF Len(accounts) = 0 THEN [sf |-> s1, res |-> Absent]
          ELSE IF a \in Range(accounts)
          THEN [sf |-> [s1 EXCEPT !.account = ConnOf(a)],
                res |-> Res("account", ConnOf(a), <<>>)]
          ELSE IF a = NoId
          THEN [sf |-> [s1 EXCEPT !.account = ConnOf(accounts[1])],
                res |-> Res("account", ConnOf(accounts[1]), <<>>)]
          ELSE [sf |-> [s1 EXCEPT !.account = NoConn], res |-> Absent]

\* SpotifySocketFunctions.getWebSocket(accountId)
getWebSocket(s, a, tries) ==
  IF ~s.ready THEN Defer(s, "getWebSocket", a, tries)
  ELSE IF s.account # NoConn /\ a = NoId
  THEN [sf |-> s, res |-> Res("conn", s.account, <<>>)]
  ELSE IF a = NoId /\ active # NoId
  THEN [sf |-> [s EXCEPT !.websocket = ConnOf(active)],
        res |-> Res("conn", ConnOf(active), <<>>)]
  ELSE LET s1 == [s EXCEPT !.listRef = TRUE]
       IN IF Len(accounts) = 0 THEN [sf |-> s1, res |-> Absent]
          ELSE LET l == PutAll(s.websocketList, Registry)
                   s2 == [s1 EXCEPT !.websocketList = l]
               IN IF Lookup(l, a) # NoConn
                  THEN [sf |-> s2, res |-> Res("conn", Lookup(l, a), <<>>)]
                  ELSE [sf |-> s2, res |-> Absent]

\* SpotifySocketFunctions.getAllWebSockets()
getAllWebSockets(s, tries) ==
  IF ~s.ready THEN Defer(s, "getAllWebSockets", NoId, tries)
  ELSE LET s1 == [s EXCEPT !.listRef = TRUE]
       IN IF Len(accounts) = 0 THEN [sf |-> s1, res |-> Absent]
          ELSE LET l == PutAll(s.websocketList, Registry)
               IN [sf |-> [s1 EXCEPT !.websocketList = l], res |-> Res("map", NoConn, l)]

\* SpotifySocketFunctions.getAPI(accountId)
getAPI(s, a) ==
  IF ~s.ready THEN [sf |-> s, res |-> Absent]
  ELSE LET r == getAccount(s, a, 0)
       IN IF r.res # Absent THEN [sf |-> r.sf, res |-> Res("api", r.res.conn, <<>>)]
          ELSE IF r.sf.account # NoConn
          THEN [sf |-> r.sf, res |-> Res("api", r.sf.account, <<>>)]
          ELSE [sf |-> r.sf, res |-> Absent]

\* the methods of SpotifySocketFunctions that defer themselves until `ready`
Deferring == {"getAccounts", "getAccount", "getWebSocket", "getAllWebSockets"}

SfMethods == Deferring \cup {"getAPI"}

\* the method `call` with the argument a; the methods without a parameter
\* ignore a
SfCall(s, call, a, tries) ==
  CASE call = "getAccounts" -> getAccounts(s, tries)
    [] call = "getAccount" -> getAccount(s, a, tries)
    [] call = "getWebSocket" -> getWebSocket(s, a, tries)
    [] call = "getAllWebSockets" -> getAllWebSockets(s, tries)
    [] call = "getAPI" -> getAPI(s, a)

\* the part of a resolver step that is the same for every call
Resolving(name, a) ==
  /\ op' = Op(name, a, NoConn, 0, FALSE)
  /\ fired' = <<>>
  /\ UNCHANGED <<hostVars, subs, watcherVars, msgL, pongL, pend, pendBus, updIds,
                 hist, cevents, ran, modal>>

\* a call of getSpotifyAccount(a) whose store lookup settles
GetSpotifyAccount(a) ==
  /\ ~sf.emitting
  /\ Resolving("getSpotifyAccount", a)
  /\ res' = getSpotifyAccount(a)
  /\ UNCHANGED sf

\* a call of getSpotifySocket(a) whose store lookup settles
GetSpotifySocket(a) ==
  /\ ~sf.emitting
  /\ Resolving("getSpotifySocket", a)
  /\ res' = SocketRes(a)
  /\ UNCHANGED sf

\* a call of getAllSpotifySockets() whose store lookup settles
GetAllSpotifySockets ==
  /\ ~sf.emitting
  /\ Resolving("getAllSpotifySockets", NoId)
  /\ res' = AllSocketsRes
  /\ UNCHANGED sf

\* a caller invokes a method of the SpotifySocketFunctions object; before
\* `ready` at most MaxPending calls are deferred
SfInvoke(call, a) ==
  /\ ~sf.emitting
  /\ call \in Deferring /\ ~sf.ready => Len(sf.readyL) < MaxPending
  /\ call \in {"getAccounts", "getAllWebSockets"} => a = NoId
  /\ Resolving(call, a)
  /\ LET r == SfCall(sf, call, a, 0)
     IN sf' = r.sf /\ res' = r.res

\* getStore() resumes with the store module: it sets _store and enters
\* emit("ready"); with no function registered for `ready` the emission ends
\* at once and _ready is set
StoreSettles ==
  /\ storeOk /\ ~sf.store
  /\ Resolving("getStore", NoId)
  /\ sf' = IF sf.readyL = <<>>
           THEN [sf EXCEPT !.store = TRUE, !.ready = TRUE]
           ELSE [sf EXCEPT !.store = TRUE, !.emitting = TRUE]
  /\ UNCHANGED res

\* one round of the for-of loop of emit("ready"): the next function of the
\* Set is invoked; it calls the deferred method again (_ready is still false)
\* and then deletes itself from the Set; when the Set has no function left
\* the loop ends and getStore sets _ready
ReadyListener ==
  /\ sf.emitting /\ sf.readyL # <<>>
  /\ LET h == Head(sf.readyL)
         r == SfCall([sf EXCEPT !.readyL = Tail(@)], h.call, h.id, h.tries + 1)
     IN /\ h.tries < MaxRetries
        /\ Resolving(h.call, h.id)
        /\ sf' = IF r.sf.readyL = <<>>
                 THEN [r.sf EXCEPT !.emitting = FALSE, !.ready = TRUE]
                 ELSE r.sf
        /\ res' = r.res

\* a host step while no emission is running
HostStep ==
  /\ ~sf.emitting
  /\ \/ \E a \in Ids : HostLink(a) \/ HostUnlink(a)
     \/ \E a \in Ids \cup {NoId} : HostSetActive(a)
     \/ HostReady

InitRes == Init /\ hostBus = "common"

\* the three functions of utils.ts over a changing host
NextFn ==
  \/ HostStep
  \/ \E a \in Ids \cup {NoId} : GetSpotifyAccount(a)
  \/ \E a \in Ids \cup {NoId} : GetSpotifySocket(a)
  \/ GetAllSpotifySockets

SpecFn == InitRes /\ [][NextFn]_vars

\* the functions of utils.ts and the SpotifySocketFunctions object
NextRes ==
  \/ NextFn
  \/ \E c \in SfMethods, a \in Ids \cup {NoId} : SfInvoke(c, a)
  \/ StoreSettles
  \/ ReadyListener

SpecRes == InitRes /\ [][NextRes]_vars

\* the two account lookups over a changing host
NextAcc ==
  \/ HostStep
  \/ \E a \in Ids \cup {NoId} : GetSpotifyAccount(a)
  \/ \E a \in Ids \cup {NoId} : SfInvoke("getAccount", a)
  \/ StoreSettles
  \/ ReadyListener

SpecAcc == InitRes /\ [][NextAcc]_vars

\* the connection of the host's active socket as a result
ActiveConn == Res("conn", ConnOf(active), <<>>)

\* C32: getSpotifySocket(accountId) over an available store returns the active
\* connection if its account is accountId; otherwise the registry connection
\* of accountId if the registry has it; otherwise, with accountId omitted,
\* the active connection if any, else the first registry entry's connection.
\* It returns a connection of another account than the requested one only
\* when accountId is neither the active account nor in the registry, and it
\* returns absent only when there is no active socket and the registry is
\* empty.
C32_ThreeTier ==
  [][(op'.name = "getSpotifySocket" /\ storeOk)
     => LET a == op'.id
            r == res'
        IN /\ (active # NoId /\ active = a) => r = ActiveConn
           /\ (active # a /\ a \in Range(accounts)) => r = Res("conn", ConnOf(a), <<>>)
           /\ a = NoId
              => r = IF active # NoId THEN ActiveConn
                     ELSE IF Len(accounts) > 0
                          THEN Res("conn", ConnOf(accounts[1]), <<>>)
                          ELSE Absent
           /\ (a # NoId /\ r.k = "conn" /\ r.conn.acc # a)
              => (active # a /\ a \notin Range(accounts))
           /\ r = Absent => (active = NoId /\ accounts = <<>>)]_vars

\* getSpotifySocket("A") has returned the connection of another account
C32_Witness ==
  /\ op.name = "getSpotifySocket" /\ storeOk
  /\ op.id # NoId
  /\ res.k = "conn" /\ res.conn.acc # op.id

\* C34: getAllSpotifySockets() over an available store returns absent when the
\* registry is empty, and otherwise a mapping whose keys are exactly the
\* accountIds of the registry, each mapped to that account's connection.
C34_AllSockets ==
  [][(op'.name = "getAllSpotifySockets" /\ storeOk)
     => IF accounts = <<>> THEN res' = Absent
        ELSE /\ res'.k = "map"
             /\ {c.acc : c \in Range(res'.map)} = Range(accounts)
             /\ Len(res'.map) = Len(accounts)
             /\ \A c \in Range(res'.map) : c = ConnOf(c.acc)]_vars

\* getAllSpotifySockets() has returned absent for an empty registry, after a
\* call that returned a mapping of two accounts
C34_Witness ==
  /\ op.name = "getAllSpotifySockets" /\ storeOk
  /\ accounts = <<>> /\ res = Absent
  /\ Discarded = 2

\* the result an account lookup gives for a given accountId: the registry's
\* entry, absent when the registry has none
EntryOf(a) ==
  IF a \in Range(accounts) THEN Res("account", ConnOf(a), <<>>) ELSE Absent

\* the first entry of the registry, absent when the registry is empty
FirstEntry ==
  IF Len(accounts) > 0 THEN Res("account", ConnOf(accounts[1]), <<>>) ELSE Absent

\* C33 (amended): getSpotifyAccount over an available store, and getAccount of
\* a ready SpotifySocketFunctions, return for a given accountId the registry's
\* entry or absent; with no accountId getSpotifyAccount returns the first
\* entry of the registry, getAccount returns the account of the host's active
\* socket if there is one and the first entry otherwise, and both return
\* absent exactly when the registry is empty.
C33_AccountResolution ==
  [][/\ (op'.name = "getSpotifyAccount" /\ storeOk)
        => res' = IF op'.id # NoId THEN EntryOf(op'.id) ELSE FirstEntry
     /\ (op'.name = "getAccount" /\ sf.ready)
        => /\ res' = IF op'.id # NoId THEN EntryOf(op'.id)
                     ELSE IF active # NoId
                          THEN Res("account", ConnOf(active), <<>>)
                          ELSE FirstEntry
           /\ op'.id = NoId => (res' = Absent <=> accounts = <<>>)
           /\ res'.k = "account" => res'.conn \in Range(Registry)]_vars

\* getAccount() has returned the active account, which is not the first entry
C33_Witness ==
  /\ op.name = "getAccount" /\ op.id = NoId /\ sf.ready
  /\ Len(accounts) = 2 /\ active = accounts[2]
  /\ res = Res("account", ConnOf(active), <<>>)

\* C33 as stated: with no accountId both lookups return the first entry of
\* the registry.
C33_FirstAccount ==
  [][/\ (op'.name = "getSpotifyAccount" /\ storeOk)
        => res' = IF op'.id # NoId THEN EntryOf(op'.id) ELSE FirstEntry
     /\ (op'.name = "getAccount" /\ sf.ready)
        => res' = IF op'.id # NoId THEN EntryOf(op'.id) ELSE FirstEntry]_vars

\* C31: in the emitter of common.ts, when no registered function itself
\* raises, emit(name) raises nothing and invokes every function registered
\* for name before the emit once, in order, also when a callback given to
\* once() calls removeAllListeners(name) or registers a further function.
C31_SafeSelfRemoval ==
  [][(hist' # hist /\ ThisCall.k = "emit")
     => LET before == cevents[ThisCall.name].hs
        IN /\ ~ran'.cThrew
           /\ Len(ran'.c) >= Len(before)
           /\ SubSeq(ran'.c, 1, Len(before)) = before]_vars

\* the functions and connections a result holds
Held(r) == (IF r.conn = NoConn THEN {} ELSE {r.conn}) \cup Range(r.map)

\* C35: every result of a ready SpotifySocketFunctions holds only accounts
\* and connections that the registry has at the time of the call.
C35_NoStaleCache ==
  [][(op'.name \in SfMethods /\ sf.ready) => Held(res') \subseteq Range(Registry)]_vars

\* C36: a resolver function of utils.ts whose module lookup yields nothing,
\* and a method of SpotifySocketFunctions called before `ready`, returns
\* absent and leaves the state of the resolver as it was.
C36_NotReadyIsAValue ==
  [][/\ (op'.name \in {"getSpotifyAccount", "getSpotifySocket", "getAllSpotifySockets"}
           /\ ~storeOk)
        => res' = Absent /\ sf' = sf
     /\ (op'.name \in SfMethods /\ ~sf.ready /\ ~sf.emitting)
        => res' = Absent /\ sf' = sf]_vars

\* C37: emit("ready") invokes each deferred call at most once, and once
\* getStore has the store module and is not inside the emission `ready` is
\* true.
C37_ReadyTerminates ==
  /\ \A i \in 1..Len(sf.readyL) : sf.readyL[i].tries <= 1
  /\ (sf.store /\ ~sf.emitting) => sf.ready

(***************************************************************************)
(* The flag `registered` against the subscriptions on the bus              *)
(***************************************************************************)
\* C38: in every state between operations, registered is true iff the update
\* handler is subscribed to all five update events, and false iff it is
\* subscribed to none of them.
C38_FlagMatchesSubscriptions ==
  /\ registered <=> \A e \in UpdateEvents : Subscribed(e, "SPOTIFY_UPDATE") = 1
  /\ ~registered <=> \A e \in UpdateEvents : Subscribed(e, "SPOTIFY_UPDATE") = 0

\* load() was called again on a registered watcher and its bus lookup is
\* still pending
C38_Witness ==
  /\ op.name = "load" /\ registered /\ pendBus # <<>>
  /\ \A e \in UpdateEvents : Subscribed(e, "SPOTIFY_UPDATE") = 1
  /\ pongL = {} /\ accounts # <<>>

(***************************************************************************)
(* load() and unload() around updates and realtime messages                *)
(***************************************************************************)
\* a player state and a device list delivered by the bound connection
FrameMessages ==
  {Message(TRUE, "message", TRUE, <<Payload(TRUE, <<e>>)>>) :
     e \in {Event("PLAYER_STATE_CHANGED",
                  StateVal(PlayerState(TRUE, 1234, 9999, "track", TRUE))),
            Event("DEVICE_STATE_CHANGED", DevVal(<<Device("d1", TRUE)>>))}}

InitFrame == Init /\ hostBus = "common" /\ storeOk /\ Len(accounts) = 2 /\ active = NoId

NextFrame ==
  \/ Load
  \/ EnumDone
  \/ ResolveDone
  \/ \E e \in DispatchedEvents, a \in Ids : Dispatch(e, a)
  \/ \E c \in Conns : PongMessage(c)
  \/ \E m \in FrameMessages : SocketMessage(m)
  \/ Unload

SpecFrame == InitFrame /\ [][NextFrame]_vars

\* C39: unload() and load() leave the bound accountId, the stored player
\* state and the stored device list as they are, and an update or pong for an
\* account other than the bound one is rejected whenever an account is bound,
\* hence also after unload() followed by load().
C39_UnloadKeepsBinding ==
  [][/\ op'.name \in {"unload", "load", "addPongEvent"}
        => (accountId' = accountId /\ state' = state /\ devices' = devices)
     /\ (op'.name \in {"dispatch", "pong"} /\ op'.calls > 0
           /\ accountId # NoId /\ op'.id # accountId)
        => /\ accountId' = accountId /\ state' = state /\ devices' = devices
           /\ Fired(fired', "update") = <<>>]_vars

\* unload() has run on a watcher bound to an account that holds a player
\* state and a device list
C39_Witness ==
  /\ op.name = "unload" /\ ~registered
  /\ accountId # NoId /\ state # Undefined /\ devices # Undefined

(***************************************************************************)
(* SpotifyModal: the handlers that project the watcher's events on #status *)
(***************************************************************************)
\* the player states handed to handlers.PLAYER_STATE_CHANGED
ModalStates ==
  {PlayerState(p, g, MaxPassed, r, h) :
     p \in BOOLEAN, g \in {0, 1}, r \in {"off", "context", "track"}, h \in BOOLEAN}

\* the part of a step of the modal that is the same for every handler
ModalStep(name) ==
  /\ op' = Op(name, NoId, NoConn, 0, FALSE)
  /\ fired' = <<>>
  /\ UNCHANGED <<hostVars, subs, watcherVars, msgL, pongL, pend, pendBus, updIds,
                 hist, cevents, ran, res, sf>>

\* handlers.PLAYER_STATE_CHANGED(data); #updateModal(data) starts the interval
\* only when #modalUpdateRate is 0 and otherwise writes to the DOM
PlayerStateChanged(data) ==
  /\ ModalStep("PLAYER_STATE_CHANGED")
  /\ modal' = [modal EXCEPT !.state = StateVal(data),
                            !.playing = data.is_playing,
                            !.passed = data.progress_ms,
                            !.duration = data.duration_ms,
                            !.repeat = data.repeat_state,
                            !.shuffle = data.shuffle_state]

\* handlers.DEVICE_STATE_CHANGED(data): it assigns this.#status.device and
\* this.active, a property of the modal itself
DeviceStateChanged(data) ==
  /\ ModalStep("DEVICE_STATE_CHANGED")
  /\ modal' = [modal EXCEPT !.statusDevice = DevVal(data),
                            !.active = IF Len(data) = 0 THEN "false" ELSE "true"]

\* handlers.MODAL_UPDATE(), the callback of the update interval
ModalUpdate ==
  /\ ModalStep("MODAL_UPDATE")
  /\ IF ~modal.playing \/ ~modal.statusActive
     THEN UNCHANGED modal
     ELSE /\ modal.passed + modal.rate <= MaxPassed
          /\ modal' = [modal EXCEPT !.passed = @ + modal.rate]

InitModal == InitEm

NextModal ==
  \/ \E s \in ModalStates : PlayerStateChanged(s)
  \/ \E d \in DeviceLists : DeviceStateChanged(d)
  \/ ModalUpdate

SpecModal == InitModal /\ [][NextModal]_vars

\* C40: after DEVICE_STATE_CHANGED the flag MODAL_UPDATE reads, #status.active,
\* is true iff the received device list is non-empty; with a non-empty device
\* list received last and a playing state, MODAL_UPDATE advances the elapsed
\* progress by the update rate.
C40_ActiveFollowsDevices ==
  [][/\ op'.name = "DEVICE_STATE_CHANGED"
        => (modal'.statusActive <=> Len(modal'.statusDevice.dv) > 0)
     /\ (op'.name = "MODAL_UPDATE" /\ modal.playing
           /\ modal.statusDevice.t = "devices" /\ Len(modal.statusDevice.dv) > 0
           /\ modal.passed + modal.rate <= MaxPassed)
        => modal'.passed = modal.passed + modal.rate]_vars

====
